---- MODULE Spec2Model ----
(***************************************************************************)
(* Model of src/src/base/abci/abcFxu.c: the interface between the ABC      *)
(* logic network and the fast-extract (FXU) package.                       *)
(*                                                                         *)
(* The network is the object vector pNtk->vObjs (identifier i is entry     *)
(* i+1 of the sequence vObjs), the Fxu_Data_t structure is the record p,   *)
(* and pc is the position of Abc_NtkFastExtract in its body.  The three    *)
(* loops of Abc_NtkFxuReconstruct advance one iteration per step.          *)
(***************************************************************************)
EXTENDS Integers, Sequences, FiniteSets, TLC

VARIABLES
    vObjs,     \* pNtk->vObjs: the object vector of the network
    p,         \* the Fxu_Data_t structure
    pc,        \* position in Abc_NtkFastExtract / Abc_NtkFxuReconstruct
    i,         \* the loop variable i of Abc_NtkFxuReconstruct
    ret,       \* the value Abc_NtkFastExtract returns (meaningful at pc = "done")
    sopOk,     \* what Abc_NtkToSop returned
    checkRes,  \* what Abc_NtkFxuCheck returned: "unset", "pass" or "fail"
    engRet,    \* what Fxu_FastExtract returned
    chkOk,     \* what Abc_NtkCheck returned
    ntk0,      \* history: the network at the call of Abc_NtkFastExtract
    ntkPre,    \* history: the network when Fxu_FastExtract returned
    trace,     \* history: the components that have run, in order
    freed      \* what Abc_NtkFxuFreeInfo has released

vars == <<vObjs, p, pc, i, ret, sopOk, checkRes, engRet, chkOk, ntk0, ntkPre, trace, freed>>

----------------------------------------------------------------------------
(* Bounds of the model *)

NumPi     == 2   \* primary inputs of an initial network (ids 0..NumPi-1)
MaxNodes  == 1   \* object slots after the inputs that hold a logic node or a hole
MaxPo     == 1   \* primary outputs of an initial network
MaxFanin  == 2   \* longest fanin list, in the network and in the engine's result
MaxCubes  == 1   \* largest cube count of a cover
MaxExt    == 2   \* largest p->nNodesExt the caller passes
MaxRet    == 1   \* largest value returned by Fxu_FastExtract

----------------------------------------------------------------------------
(* Values *)

\* a cover (pNode->pData): number of variables, number of cubes, and gen,
\* which tells a cover of the initial network (0) from one written by the
\* engine (1); NullSop is the NULL pointer
NullSop == [vars |-> -1, cubes |-> -1, gen |-> -1]

Sop(v, c, g) == [vars |-> v, cubes |-> c, gen |-> g]

\* an empty entry of the object vector (Abc_NtkObj returns NULL)
NullObj == [type |-> "NULL", vFanins |-> <<>>, fCompl0 |-> FALSE,
            fCompl1 |-> FALSE, pData |-> NullSop]

Obj(t, f, c0, c1, d) == [type |-> t, vFanins |-> f, fCompl0 |-> c0,
                         fCompl1 |-> c1, pData |-> d]

\* a Vec_Int_t * entry of vFaninsNew: NULL, or an owned array of identifiers
NullVec == [null |-> TRUE, arr |-> <<>>]

Vec(s) == [null |-> FALSE, arr |-> s]

\* a Vec_Int_t * entry of vFanins: NULL (node = -1), or the address of the
\* fanin array of the live node with that identifier
NullRef == [node |-> -1]

Ref(id) == [node |-> id]

\* Vec_PtrFill( v, n, e )
Vec_PtrFill(n, e) == [k \in 1..n |-> e]

\* finite sequences over S of length lo..hi
SeqsOf(S, lo, hi) == UNION {[1..n -> S] : n \in lo..hi}

----------------------------------------------------------------------------
(* Graph accessors *)

\* Abc_NtkObjNumMax( pNtk ): the size of the object vector
Abc_NtkObjNumMax(objs) == Len(objs)

\* Abc_NtkObj( pNtk, id ); NullObj stands for NULL and for an out-of-range id
Abc_NtkObj(objs, id) == IF id \in 0..(Len(objs) - 1) THEN objs[id + 1] ELSE NullObj

\* identifiers visited by Abc_NtkForEachNode: non-NULL entries that are logic nodes
NodeIds(objs) == {id \in 0..(Len(objs) - 1) : objs[id + 1].type = "NODE"}

\* identifiers that hold an object a fanin edge may lead to
LiveIds(objs) == {id \in 0..(Len(objs) - 1) : objs[id + 1].type \in {"PI", "NODE"}}

\* Abc_ObjFaninC( pObj, k ): the object stores two complement bits only
Abc_ObjFaninC(o, k) == IF k = 0 THEN o.fCompl0 ELSE o.fCompl1

Abc_SopGetVarNum(sop) == sop.vars

Abc_SopGetCubeNum(sop) == sop.cubes

\* Abc_NtkCreateNode( pNtk ): the new object takes the next identifier
Abc_NtkCreateNode(objs) == Append(objs, Obj("NODE", <<>>, FALSE, FALSE, NullSop))

\* Abc_ObjRemoveFanins( pNode )
Abc_ObjRemoveFanins(o) == [o EXCEPT !.vFanins = <<>>, !.fCompl0 = FALSE, !.fCompl1 = FALSE]

\* Abc_ObjAddFanin( pNode, pFanin ) with a regular (non-complemented) pFanin
Abc_ObjAddFanin(o, id) == [o EXCEPT !.vFanins = Append(@, id)]

RECURSIVE AddFanins(_, _, _)
\* the loop "for ( k = 0; k < vFanins->nSize; k++ ) Abc_ObjAddFanin(...)" from index k
AddFanins(o, arr, k) ==
    IF k > Len(arr) THEN o
    ELSE AddFanins(Abc_ObjAddFanin(o, arr[k]), arr, k + 1)

RECURSIVE Tfi(_, _)
\* the objects Abc_NtkDfs reaches from the set S through fanin edges
Tfi(objs, S) ==
    LET T == S \cup UNION {{objs[id + 1].vFanins[k] : k \in 1..Len(objs[id + 1].vFanins)} : id \in S}
    IN IF T = S THEN S ELSE Tfi(objs, T)

\* Abc_NtkCleanup( pNtk, 0 ): deletes the logic nodes no primary output depends on
Abc_NtkCleanup(objs) ==
    LET pos  == {id \in 0..(Len(objs) - 1) : objs[id + 1].type = "PO"}
        keep == Tfi(objs, pos)
    IN [k \in 1..Len(objs) |->
          IF objs[k].type = "NODE" /\ (k - 1) \notin keep THEN NullObj ELSE objs[k]]

----------------------------------------------------------------------------
(* Abc_NtkFxuCheck *)

\* FxuCheckNode with the duplicate test lost
FxuCheckNode_NoDup(o) ==
    \A a \in 1..Len(o.vFanins) : ~((a - 1) < 2 /\ Abc_ObjFaninC(o, a - 1))

\* FxuCheckNode with the polarity test on slot 0 only (i < 1)
FxuCheckNode_Slot0(o) ==
    \A a \in 1..Len(o.vFanins) :
        /\ ~((a - 1) < 1 /\ Abc_ObjFaninC(o, a - 1))
        /\ \A b \in 1..Len(o.vFanins) : (a = b) \/ (o.vFanins[a] # o.vFanins[b])

\* the test inside the two fanin loops for node o: no return 0 is taken
FxuCheckNode(o) ==
    \A a \in 1..Len(o.vFanins) :
        /\ ~((a - 1) < 2 /\ Abc_ObjFaninC(o, a - 1))
        /\ \A b \in 1..Len(o.vFanins) : (a = b) \/ (o.vFanins[a] # o.vFanins[b])

\* Abc_NtkFxuCheck that tests the polarity of slot 0 only
Abc_NtkFxuCheck_Slot0(objs) == \A id \in NodeIds(objs) : FxuCheckNode_Slot0(Abc_NtkObj(objs, id))

Abc_NtkFxuCheck(objs) == \A id \in NodeIds(objs) : FxuCheckNode(Abc_NtkObj(objs, id))

----------------------------------------------------------------------------
(* Abc_NtkFxuCollectInfo *)

\* FxuEligible with the variable test off by one (< 1)
FxuEligible_OneVar(o) ==
    /\ ~(Abc_SopGetVarNum(o.pData) < 1)
    /\ ~(Abc_SopGetCubeNum(o.pData) < 1)

\* the two "continue" tests of the collecting loop
FxuEligible(o) ==
    /\ ~(Abc_SopGetVarNum(o.pData) < 2)
    /\ ~(Abc_SopGetCubeNum(o.pData) < 1)

Abc_NtkFxuCollectInfo(objs, q) ==
    LET n == Abc_NtkObjNumMax(objs)
    IN [q EXCEPT
          !.vSops      = [k \in 1..n |->
                            IF (k - 1) \in NodeIds(objs) /\ FxuEligible(objs[k])
                            THEN objs[k].pData ELSE NullSop],
          !.vFanins    = [k \in 1..n |->
                            IF (k - 1) \in NodeIds(objs) /\ FxuEligible(objs[k])
                            THEN Ref(k - 1) ELSE NullRef],
          !.vSopsNew   = Vec_PtrFill(n + q.nNodesExt, NullSop),
          !.vFaninsNew = Vec_PtrFill(n + q.nNodesExt, NullVec),
          !.nNodesOld  = n,
          !.alloc      = TRUE]

----------------------------------------------------------------------------
(* Initial networks *)

PiObj == Obj("PI", <<>>, FALSE, FALSE, NullSop)

\* the logic nodes that may sit at the next identifier of objs: fanins lead
\* to live objects already present, the cover has one variable per fanin,
\* and a complement bit is set only on a fanin slot that exists
NodeChoices(objs) ==
    {Obj("NODE", f, c0, c1, Sop(Len(f), c, 0)) :
        f \in SeqsOf(LiveIds(objs), 0, MaxFanin), c0 \in BOOLEAN, c1 \in BOOLEAN,
        c \in 0..MaxCubes}

WellFormedNode(o) ==
    /\ (o.fCompl0 => Len(o.vFanins) >= 1)
    /\ (o.fCompl1 => Len(o.vFanins) >= 2)

RECURSIVE WithNodes(_)
\* object vectors made of the inputs followed by n slots, each a hole or a node
WithNodes(n) ==
    IF n = 0 THEN {[k \in 1..NumPi |-> PiObj]}
    ELSE LET S == WithNodes(n - 1)
         IN UNION {{Append(objs, o) :
                      o \in {NullObj} \cup {c \in NodeChoices(objs) : WellFormedNode(c)}} :
                   objs \in S}

RECURSIVE WithPos(_, _)
\* objs followed by n primary outputs, each driven by a live object of objs
WithPos(S, n) ==
    IF n = 0 THEN S
    ELSE UNION {{Append(objs, Obj("PO", <<d>>, FALSE, FALSE, NullSop)) :
                   d \in LiveIds(objs)} : objs \in WithPos(S, n - 1)}

InitNetworks ==
    UNION {WithPos(WithNodes(n), m) : n \in 0..MaxNodes, m \in 0..MaxPo}

EmptyData(ext) ==
    [vSops |-> <<>>, vFanins |-> <<>>, vSopsNew |-> <<>>, vFaninsNew |-> <<>>,
     nNodesOld |-> 0, nNodesNew |-> 0, nNodesExt |-> ext, alloc |-> FALSE]

Init ==
    /\ vObjs \in InitNetworks
    /\ \E ext \in 0..MaxExt : p = EmptyData(ext)
    /\ pc = "tosop"
    /\ i = 0
    /\ ret = FALSE
    /\ sopOk = FALSE
    /\ checkRes = "unset"
    /\ engRet = 0
    /\ chkOk = TRUE
    /\ ntk0 = vObjs
    /\ ntkPre = vObjs
    /\ trace = <<>>
    /\ freed = [ints |-> 0, ptrs |-> 0, data |-> FALSE]

----------------------------------------------------------------------------
(* Fxu_FastExtract: the external engine *)

\* the identifiers an updated fanin list may name: live objects of the
\* network and the n nodes the engine introduces
EngineIds(objs, q, n) == LiveIds(objs) \cup (q.nNodesOld..(q.nNodesOld + n - 1))

\* the fanin arrays the engine may write when it introduces n nodes
EngineVecs(objs, q, n) == {Vec(s) : s \in SeqsOf(EngineIds(objs, q, n), 0, MaxFanin)}

\* the entries of existing identifiers the engine may write: those where
\* the original collections hold the node
EngineOld(q) == {k \in 1..q.nNodesOld : q.vFanins[k] # NullRef}

\* the entries of the n new identifiers: the engine writes every one
EngineNew(q, n) == (q.nNodesOld + 1)..(q.nNodesOld + n)

\* vFaninsNew with the entries u of existing and w of new identifiers
\* written; the other entries, the reserved ones beyond the n new
\* identifiers among them, stay NULL
EngineLists(q, n, u, w) ==
    [k \in 1..Len(q.vFaninsNew) |->
        IF k \in EngineOld(q) THEN u[k]
        ELSE IF k \in EngineNew(q, n) THEN w[k]
        ELSE NullVec]

\* the cover the engine writes next to a fanin list
EngineSop(v) == IF v.null THEN NullSop ELSE Sop(Len(v.arr), 1, 1)

\* the structure Fxu_FastExtract leaves behind with the fanin arrays l and
\* n new nodes
EngineResult(q, l, n) ==
    [q EXCEPT !.vFaninsNew = l,
              !.vSopsNew   = [k \in 1..Len(l) |-> EngineSop(l[k])],
              !.nNodesNew  = n]

----------------------------------------------------------------------------
(* Abc_NtkFxuFreeInfo *)

\* what Abc_NtkFxuFreeInfo( p ) releases: the non-NULL Vec_Int_t entries of
\* p->vFaninsNew, the four Vec_Ptr_t that are not NULL, and p itself; alloc
\* says whether the four vectors were allocated (lines 145-148)
Abc_NtkFxuFreeInfo(q) ==
    [ints |-> IF q.alloc
              THEN Cardinality({k \in 1..Len(q.vFaninsNew) : ~q.vFaninsNew[k].null})
              ELSE 0,
     ptrs |-> IF q.alloc THEN 4 ELSE 0,
     data |-> TRUE]

\* p after ABC_FREE( p ): nothing of it remains
FreedData == EmptyData(0)

----------------------------------------------------------------------------
(* Abc_NtkFxuReconstruct: the bodies of the two rewiring loops *)

\* a cover read from memory the program does not own
GarbageSop == [vars |-> -2, cubes |-> -2, gen |-> -2]

\* ReadFaninsNew that reads the entry of the first new node for every new node
ReadFaninsNew_First(objs, q, k) ==
    IF Len(q.vFanins) + 1 <= Len(q.vFaninsNew) THEN {q.vFaninsNew[Len(q.vFanins) + 1]}
    ELSE {NullVec} \cup {Vec(f) : f \in SeqsOf(0..(Len(objs) - 1), 0, MaxFanin)}

\* p->vFaninsNew->pArray[k]: the entry when k is inside the array; behind
\* the array the read is undefined and yields NULL, an unreadable pointer
\* (both end the run) or a stale pointer to any array of identifiers
ReadFaninsNew(objs, q, k) ==
    IF k + 1 <= Len(q.vFaninsNew) THEN {q.vFaninsNew[k + 1]}
    ELSE {NullVec} \cup {Vec(f) : f \in SeqsOf(0..(Len(objs) - 1), 0, MaxFanin)}

\* p->vSopsNew->pArray[k]: the entry when k is inside the array; behind the
\* array the read is undefined and yields NULL, garbage, or a stale pointer
\* to any cover, of the network or written by the engine
ReadSopsNew(q, k) ==
    IF k + 1 <= Len(q.vSopsNew) THEN {q.vSopsNew[k + 1]}
    ELSE {NullSop, GarbageSop}
         \cup {Sop(v, c, g) : v \in 0..MaxFanin, c \in 0..MaxCubes, g \in {0, 1}}

\* RecOldNode without the test for a missing fanin array
RecOldNode_NoSkip(o, vf, sop) ==
    [AddFanins(Abc_ObjRemoveFanins(o), vf.arr, 1) EXCEPT !.pData = sop]

\* RecOldNode that does not remove the old fanins
RecOldNode_KeepOld(o, vf, sop) ==
    IF vf.null THEN o
    ELSE [AddFanins(o, vf.arr, 1) EXCEPT !.pData = sop]

\* an old node: skipped when it has no new fanin array, rewired otherwise
RecOldNode(o, vf, sop) ==
    IF vf.null THEN o
    ELSE [AddFanins(Abc_ObjRemoveFanins(o), vf.arr, 1) EXCEPT !.pData = sop]

\* a new node
RecNewNode(o, vf, sop) == [AddFanins(o, vf.arr, 1) EXCEPT !.pData = sop]

\* some Abc_NtkObj( pNtk, vFanins->pArray[k] ) is NULL
NullFanin(objs, vf) == \E k \in 1..Len(vf.arr) : Abc_NtkObj(objs, vf.arr[k]) = NullObj

Aborts == {"abort210", "abort216", "abort236", "abort251", "crash"}

----------------------------------------------------------------------------
(* Abc_NtkFastExtract, step by step *)

\* line 64: Abc_NtkToSop( pNtk, 0 ) succeeds or fails
ToSop ==
    /\ pc = "tosop"
    /\ \E ok \in BOOLEAN :
          /\ sopOk' = ok
          /\ pc' = IF ok THEN "check" ELSE "done"
    /\ ret' = FALSE
    /\ UNCHANGED <<freed, vObjs, p, i, checkRes, engRet, chkOk, ntk0, ntkPre, trace>>

\* line 70
FxuCheck ==
    /\ pc = "check"
    /\ checkRes' = IF Abc_NtkFxuCheck(vObjs) THEN "pass" ELSE "fail"
    /\ pc' = IF Abc_NtkFxuCheck(vObjs) THEN "cleanup" ELSE "done"
    /\ ret' = FALSE
    /\ trace' = Append(trace, "validate")
    /\ UNCHANGED <<freed, vObjs, p, i, sopOk, engRet, chkOk, ntk0, ntkPre>>

\* line 76
Cleanup ==
    /\ pc = "cleanup"
    /\ vObjs' = Abc_NtkCleanup(vObjs)
    /\ pc' = "collect"
    /\ UNCHANGED <<freed, p, i, ret, sopOk, checkRes, engRet, chkOk, ntk0, ntkPre, trace>>

\* line 78
CollectInfo ==
    /\ pc = "collect"
    /\ p' = Abc_NtkFxuCollectInfo(vObjs, p)
    /\ pc' = "extract"
    /\ trace' = Append(trace, "build")
    /\ UNCHANGED <<freed, vObjs, i, ret, sopOk, checkRes, engRet, chkOk, ntk0, ntkPre>>

\* lines 80, 89-91: the engine call and the branch on its return value
FastExtract ==
    /\ pc = "extract"
    /\ \E n \in 0..p.nNodesExt :
          \E u \in [EngineOld(p) -> {NullVec} \cup EngineVecs(vObjs, p, n)] :
             \E w \in [EngineNew(p, n) -> EngineVecs(vObjs, p, n)] :
                p' = EngineResult(p, EngineLists(p, n, u, w), n)
    /\ \E r \in (-1)..MaxRet :
          /\ engRet' = r
          /\ pc' = IF r > 0 THEN "reconstruct" ELSE "done"
    /\ ret' = FALSE
    /\ ntkPre' = vObjs
    /\ trace' = Append(trace, "engine")
    /\ UNCHANGED <<freed, vObjs, i, sopOk, checkRes, chkOk, ntk0>>

\* lines 83, 210: entry of Abc_NtkFxuReconstruct and its first assertion
RecAssert ==
    /\ pc = "reconstruct"
    /\ pc' = IF Len(p.vFanins) < Len(p.vFaninsNew) THEN "rec_create" ELSE "abort210"
    /\ i' = Len(p.vFanins)
    /\ trace' = Append(trace, "reconstruct")
    /\ UNCHANGED <<freed, vObjs, p, ret, sopOk, checkRes, engRet, chkOk, ntk0, ntkPre>>

\* RecCreate with the loop bound p->vFanins->nSize: no node is created
RecCreate_None ==
    /\ pc = "rec_create"
    /\ pc' = "rec_old"
    /\ i' = 0
    /\ vObjs' = vObjs
    /\ UNCHANGED <<freed, p, ret, sopOk, checkRes, engRet, chkOk, ntk0, ntkPre, trace>>

\* lines 212-217: one iteration of the loop that creates the new nodes
RecCreate ==
    /\ pc = "rec_create"
    /\ IF i < Len(p.vFanins) + p.nNodesNew
       THEN /\ vObjs' = Abc_NtkCreateNode(vObjs)
            /\ IF i = Len(vObjs)
               THEN pc' = "rec_create" /\ i' = i + 1
               ELSE pc' = "abort216" /\ i' = i
       ELSE /\ pc' = "rec_old"
            /\ i' = 0
            /\ vObjs' = vObjs
    /\ UNCHANGED <<freed, p, ret, sopOk, checkRes, engRet, chkOk, ntk0, ntkPre, trace>>

\* lines 219-237: one iteration of the loop that updates the old nodes
RecOld ==
    /\ pc = "rec_old"
    /\ IF i < Len(p.vFanins)
       THEN LET vf   == p.vFaninsNew[i + 1]
                sop  == p.vSopsNew[i + 1]
                node == Abc_NtkObj(vObjs, i)
            IN IF ~vf.null /\ (node = NullObj \/ NullFanin(vObjs, vf))
               THEN pc' = "crash" /\ i' = i /\ vObjs' = vObjs
               ELSE /\ vObjs' = [vObjs EXCEPT ![i + 1] = RecOldNode(node, vf, sop)]
                    /\ IF vf.null \/ sop # NullSop
                       THEN pc' = "rec_old" /\ i' = i + 1
                       ELSE pc' = "abort236" /\ i' = i
       ELSE /\ pc' = "rec_new"
            /\ i' = Len(p.vFanins)
            /\ vObjs' = vObjs
    /\ UNCHANGED <<freed, p, ret, sopOk, checkRes, engRet, chkOk, ntk0, ntkPre, trace>>

\* lines 239-252: one iteration of the loop that sets up the new nodes
RecNew ==
    /\ pc = "rec_new"
    /\ IF i < Len(p.vFanins) + p.nNodesNew
       THEN \E vf \in ReadFaninsNew(vObjs, p, i) : \E sop \in ReadSopsNew(p, i) :
              LET node == Abc_NtkObj(vObjs, i)
              IN IF vf.null \/ node = NullObj \/ NullFanin(vObjs, vf)
                 THEN pc' = "crash" /\ i' = i /\ vObjs' = vObjs
                 ELSE /\ vObjs' = [vObjs EXCEPT ![i + 1] = RecNewNode(node, vf, sop)]
                      /\ IF sop # NullSop
                         THEN pc' = "rec_new" /\ i' = i + 1
                         ELSE pc' = "abort251" /\ i' = i
       ELSE /\ pc' = "ntkcheck"
            /\ i' = i
            /\ vObjs' = vObjs
    /\ UNCHANGED <<freed, p, ret, sopOk, checkRes, engRet, chkOk, ntk0, ntkPre, trace>>

\* NtkCheck that returns the outcome of Abc_NtkCheck
NtkCheck_Result ==
    /\ pc = "ntkcheck"
    /\ \E ok \in BOOLEAN : chkOk' = ok /\ ret' = ok
    /\ pc' = "done"
    /\ UNCHANGED <<freed, vObjs, p, i, sopOk, checkRes, engRet, ntk0, ntkPre, trace>>

\* lines 85-87: Abc_NtkCheck passes or fails, the result is 1 either way
NtkCheck ==
    /\ pc = "ntkcheck"
    /\ \E ok \in BOOLEAN : chkOk' = ok
    /\ ret' = TRUE
    /\ pc' = "done"
    /\ UNCHANGED <<freed, vObjs, p, i, sopOk, checkRes, engRet, ntk0, ntkPre, trace>>

\* lines 177-191: the caller releases p once Abc_NtkFastExtract has returned
FreeInfo ==
    /\ pc = "done"
    /\ freed' = Abc_NtkFxuFreeInfo(p)
    /\ p' = FreedData
    /\ pc' = "freed"
    /\ UNCHANGED <<vObjs, i, ret, sopOk, checkRes, engRet, chkOk, ntk0, ntkPre, trace>>

Next ==
    \/ ToSop
    \/ FxuCheck
    \/ Cleanup
    \/ CollectInfo
    \/ FastExtract
    \/ RecAssert
    \/ RecCreate
    \/ RecOld
    \/ RecNew
    \/ NtkCheck
    \/ FreeInfo

Spec == Init /\ [][Next]_vars

TypeOK ==
    /\ pc \in {"tosop", "check", "cleanup", "collect", "extract", "reconstruct",
               "rec_create", "rec_old", "rec_new", "ntkcheck", "done", "freed"} \cup Aborts
    /\ ret \in BOOLEAN
    /\ checkRes \in {"unset", "pass", "fail"}

----------------------------------------------------------------------------
(* Vocabulary of the properties *)

Ran(step) == \E k \in 1..Len(trace) : trace[k] = step

Count(step) == Cardinality({k \in 1..Len(trace) : trace[k] = step})

\* a fanin of slot 0 or 1 of o carries inverted polarity
HasInvertedFanin(o) ==
    \/ (Len(o.vFanins) >= 1 /\ o.fCompl0)
    \/ (Len(o.vFanins) >= 2 /\ o.fCompl1)

\* two distinct fanin slots of o name the same object
HasDuplicateFanin(o) ==
    \E a \in 1..Len(o.vFanins) : \E b \in 1..Len(o.vFanins) :
        a < b /\ o.vFanins[a] = o.vFanins[b]

\* some logic node of objs breaks one of the two rules
Violates(objs) ==
    \E k \in 1..Len(objs) :
        objs[k].type = "NODE" /\ (HasInvertedFanin(objs[k]) \/ HasDuplicateFanin(objs[k]))

\* id names a logic node of objs with a cover of >= 2 variables and >= 1 cube
Eligible(objs, id) ==
    /\ objs[id + 1].type = "NODE"
    /\ objs[id + 1].pData.vars >= 2
    /\ objs[id + 1].pData.cubes >= 1

\* every fanin reference of every object names an object of the network
NoDangling(objs) ==
    \A k \in 1..Len(objs) : \A a \in 1..Len(objs[k].vFanins) :
        LET f == objs[k].vFanins[a]
        IN f \in 0..(Len(objs) - 1) /\ objs[f + 1].type # "NULL"

\* Abc_NtkFastExtract has returned
Returned == pc \in {"done", "freed"}

\* Abc_NtkFxuReconstruct has returned
RecDone == pc = "ntkcheck" \/ (pc = "done" /\ Ran("reconstruct"))

\* the identifiers of the nodes the engine introduced
NewIds == p.nNodesOld..(p.nNodesOld + p.nNodesNew - 1)

----------------------------------------------------------------------------
(* C1 *)

\* C1: when some logic node of the network has an inverted fanin in slot 0
\* or 1, or two fanin slots naming the same node, Abc_NtkFastExtract
\* returns false, the network stays exactly as it was at the call, and
\* neither the builder, the engine nor the reconstructor runs.
C1_DeclineOnBadFanins ==
    Violates(ntk0) =>
        /\ vObjs = ntk0
        /\ pc \in {"tosop", "check", "done", "freed"}
        /\ (Returned => ret = FALSE)
        /\ ~Ran("build") /\ ~Ran("engine") /\ ~Ran("reconstruct")

C1_Witness ==
    /\ pc = "done"
    /\ checkRes = "fail"
    /\ \E k \in 1..Len(ntk0) : ntk0[k].type = "NODE" /\ HasDuplicateFanin(ntk0[k])
                              /\ ~HasInvertedFanin(ntk0[k])

(* C2 *)

\* C2: when validation passes and the engine returns 0 or a negative
\* count, Abc_NtkFastExtract returns false and the network is the one it
\* was called with: same size, same objects, same fanins, same covers.
C2_NoImprovementUntouched ==
    (pc = "done" /\ checkRes = "pass" /\ Ran("engine") /\ engRet <= 0) =>
        (ret = FALSE /\ vObjs = ntk0)

(* C3 *)

\* C3: Abc_NtkFxuCheck returns false exactly when some logic node has an
\* inverted fanin in slot 0 or 1 or two fanin slots naming the same node,
\* and the network is the same after it as before.
C3_ValidatorSound ==
    (checkRes # "unset") =>
        /\ (checkRes = "fail") <=> Violates(ntk0)
        /\ (pc \in {"cleanup", "done"} /\ ~Ran("build")) => vObjs = ntk0

C3_Witness ==
    /\ pc = "cleanup"
    /\ checkRes = "pass"
    /\ \E k \in 1..Len(vObjs) : vObjs[k].type = "NODE" /\ Len(vObjs[k].vFanins) = 2

(* C4 *)

\* C4: right after Abc_NtkFxuCollectInfo the original cover and fanin
\* entries at identifier id hold node id's cover and the address of its
\* fanin array exactly when id is a logic node with >= 2 cover variables
\* and >= 1 cube, every other original entry and every entry of the two
\* updated collections is empty, the collections have the sizes
\* Abc_NtkObjNumMax and Abc_NtkObjNumMax + nNodesExt, nNodesOld is
\* Abc_NtkObjNumMax, and the network is the one the builder was given.
C4_BuilderComplete ==
    (pc = "extract") =>
        LET n == Len(vObjs)
        IN /\ Len(p.vSops) = n /\ Len(p.vFanins) = n
           /\ Len(p.vSopsNew) = n + p.nNodesExt /\ Len(p.vFaninsNew) = n + p.nNodesExt
           /\ \A id \in 0..(n - 1) :
                IF Eligible(vObjs, id)
                THEN /\ p.vSops[id + 1] = vObjs[id + 1].pData
                     /\ p.vFanins[id + 1] = Ref(id)
                ELSE /\ p.vSops[id + 1] = NullSop
                     /\ p.vFanins[id + 1] = NullRef
           /\ \A k \in 1..(n + p.nNodesExt) :
                p.vSopsNew[k] = NullSop /\ p.vFaninsNew[k] = NullVec
           /\ p.nNodesOld = n
           /\ vObjs = Abc_NtkCleanup(ntk0)

C4_Witness ==
    /\ pc = "extract"
    /\ p.nNodesExt >= 1
    /\ \E id \in 0..(Len(vObjs) - 1) : p.vFanins[id + 1] = Ref(id)

(* C5 *)

\* C5: the k-th node Abc_NtkFxuReconstruct creates gets identifier
\* nNodesOld + k, and when the call has returned with nNodesNew > 0 the
\* network has exactly nNodesNew more objects than before, the old
\* identifiers hold what kind of object they held, and every new
\* identifier holds a logic node whose cover is the non-NULL updated cover
\* at that index and whose fanins are the updated fanin list at that index.
C5_NewNodesComplete ==
    /\ (pc = "rec_create") => (i = Len(vObjs) /\ p.nNodesOld = Len(ntkPre))
    /\ (RecDone /\ p.nNodesNew > 0) =>
        /\ p.nNodesOld = Len(ntkPre)
        /\ Len(vObjs) = Len(ntkPre) + p.nNodesNew
        /\ \A id \in 0..(Len(ntkPre) - 1) : vObjs[id + 1].type = ntkPre[id + 1].type
        /\ \A id \in NewIds :
             /\ vObjs[id + 1].type = "NODE"
             /\ vObjs[id + 1].pData # NullSop
             /\ vObjs[id + 1].pData = p.vSopsNew[id + 1]
             /\ vObjs[id + 1].vFanins = p.vFaninsNew[id + 1].arr

\* two new nodes, created at consecutive identifiers, each wired from its
\* own entry, the two entries differing
C5_Witness ==
    /\ RecDone
    /\ p.nNodesNew = 2
    /\ Len(vObjs) = Len(ntkPre) + 2
    /\ LET a == vObjs[p.nNodesOld + 1]
           b == vObjs[p.nNodesOld + 2]
       IN /\ a.type = "NODE" /\ b.type = "NODE"
          /\ a.vFanins = p.vFaninsNew[p.nNodesOld + 1].arr
          /\ b.vFanins = p.vFaninsNew[p.nNodesOld + 2].arr
          /\ a.vFanins # b.vFanins
          /\ Len(a.vFanins) = 2 /\ a.vFanins[1] > a.vFanins[2]
          /\ p.nNodesOld \in {b.vFanins[j] : j \in 1..Len(b.vFanins)}

(* C6 *)

\* C6: from the engine's return on, every object at an identifier of the
\* original domain that has no updated fanin list keeps the fanins and the
\* cover it had when the engine returned.
C6_UntouchedPreserved ==
    Ran("engine") =>
        \A id \in 0..(p.nNodesOld - 1) :
            p.vFaninsNew[id + 1].null =>
                /\ vObjs[id + 1].vFanins = ntkPre[id + 1].vFanins
                /\ vObjs[id + 1].pData = ntkPre[id + 1].pData

C6_Witness ==
    /\ RecDone
    /\ p.nNodesNew > 0
    /\ \E id \in 0..(p.nNodesOld - 1) :
         /\ p.vFanins[id + 1] = Ref(id)
         /\ p.vFaninsNew[id + 1].null
         /\ Len(vObjs[id + 1].vFanins) = 2

(* C7 *)

\* C7: when Abc_NtkFxuReconstruct has returned, every identifier of the
\* original domain with a non-empty updated fanin list holds a node whose
\* fanins are exactly that list and whose cover is the updated cover, also
\* when the list names nodes created by the same call.
C7_RewiredExactly ==
    RecDone =>
        \A id \in 0..(p.nNodesOld - 1) :
            (~p.vFaninsNew[id + 1].null /\ Len(p.vFaninsNew[id + 1].arr) > 0) =>
                /\ vObjs[id + 1].vFanins = p.vFaninsNew[id + 1].arr
                /\ vObjs[id + 1].pData = p.vSopsNew[id + 1]

\* the scenario of the specification: A = 2 with fanins [0,1] becomes [4],
\* and the new node 4 gets [0,1]
C7_Witness ==
    /\ RecDone
    /\ Len(ntkPre) = 4 /\ Len(vObjs) = 5
    /\ ntkPre[3].vFanins = <<0, 1>>
    /\ vObjs[3].vFanins = <<4>> /\ vObjs[3].pData.gen = 1
    /\ vObjs[5].vFanins = <<0, 1>>

(* C8 *)

\* C8: whenever Abc_NtkFxuReconstruct is entered the updated collections
\* are strictly larger than the original ones, so the assertion of line
\* 210 never fails.
C8_AssertNeverFails ==
    /\ (pc = "reconstruct") => (Len(p.vFanins) < Len(p.vFaninsNew))
    /\ pc # "abort210"

(* C9 *)

\* C9: Abc_NtkFastExtract returns true only after conversion and
\* validation succeeded and the engine returned a positive count, and it
\* returns true whenever it returns after that; then the reconstructor has
\* run exactly once and its new nodes are in the network whatever
\* Abc_NtkCheck said; the components always run in the order validate,
\* build, engine, reconstruct; a call that returns false has not run the
\* reconstructor and leaves the network as it was when the engine returned.
C9_ReturnAndOrder ==
    /\ \E n \in 0..4 : trace = SubSeq(<<"validate", "build", "engine", "reconstruct">>, 1, n)
    /\ Returned =>
         (ret = TRUE <=> (sopOk /\ ~Violates(ntk0) /\ Ran("engine") /\ engRet > 0))
    /\ (~Returned) => (ret = FALSE)
    /\ (pc = "done" /\ ret = TRUE) =>
         /\ Count("reconstruct") = 1
         /\ Len(vObjs) = Len(ntkPre) + p.nNodesNew
    /\ (Returned /\ ret = FALSE) =>
         /\ ~Ran("reconstruct")
         /\ (Ran("engine") => vObjs = ntkPre)
         /\ (~Ran("engine") => vObjs = ntk0)

C9_Witness ==
    /\ pc = "done"
    /\ ret = TRUE
    /\ chkOk = FALSE
    /\ vObjs # ntkPre

(* C10 *)

\* C10: at every step every fanin reference names an object present in
\* the network; the reconstructor never reaches into a missing object;
\* while it creates the new nodes no old object has been rewired, and once
\* it rewires all nNodesNew new nodes exist.
C10_NoDangling ==
    /\ NoDangling(vObjs)
    /\ pc # "crash"
    /\ (pc = "rec_create") =>
         \A id \in 0..(Len(ntkPre) - 1) : vObjs[id + 1] = ntkPre[id + 1]
    /\ (pc \in {"rec_old", "rec_new", "ntkcheck"}) =>
         Len(vObjs) = Len(ntkPre) + p.nNodesNew

C10_Witness ==
    /\ pc = "rec_old"
    /\ \E id \in 0..(p.nNodesOld - 1) :
         \E a \in 1..Len(vObjs[id + 1].vFanins) : vObjs[id + 1].vFanins[a] >= p.nNodesOld

====
